---------------------------- MODULE Spec2Model ----------------------------
(***************************************************************************)
(* A model of src/app.py: the Flask application built by create_app().     *)
(*                                                                         *)
(* State: the language preference of every browser session (Flask's        *)
(* session['language']) and a bounded number of request slots, each        *)
(* holding one calculator request with its handler's local variables, its  *)
(* position in the handler and, once the handler has ended, its response.  *)
(*                                                                         *)
(* Numbers.  The handlers convert every field with float() and compute in  *)
(* floating point.  The model computes with exact rationals <<n, d>>       *)
(* (d > 0, lowest terms); the inputs are integers chosen so that every     *)
(* exponent the handlers form is an integer.  Rounding, NaN and infinities *)
(* are outside the model.                                                  *)
(***************************************************************************)
EXTENDS Integers, Sequences, FiniteSets, TLC

VARIABLES session, reqs

vars == <<session, reqs>>

(***************************************************************************)
(* Bounds of the model.                                                    *)
(***************************************************************************)
NumSlots == 2
NumSessions == 1
MaxDebts == 2
MaxAmount == 7

Slots == 1..NumSlots
Sessions == 1..NumSessions

(***************************************************************************)
(* Exact rational arithmetic standing for Python's float operators.        *)
(***************************************************************************)
Abs(n) == IF n < 0 THEN -n ELSE n

RECURSIVE GCD(_, _)
GCD(a, b) == IF b = 0 THEN a ELSE GCD(b, a % b)

Norm(n, d) ==
    LET g == GCD(Abs(n), Abs(d))
        sgn == IF d < 0 THEN -1 ELSE 1
    IN  <<sgn * (n \div g), sgn * (d \div g)>>

Rat(n) == <<n, 1>>
Zero == Rat(0)
One == Rat(1)

RAdd(a, b) == Norm(a[1] * b[2] + b[1] * a[2], a[2] * b[2])
RSub(a, b) == Norm(a[1] * b[2] - b[1] * a[2], a[2] * b[2])
RNeg(a) == <<-a[1], a[2]>>
\* a * b, cancelling across the factors first so that products stay small
RMul(a, b) ==
    LET x == Norm(a[1], b[2])
        y == Norm(b[1], a[2])
    IN  Norm(x[1] * y[1], x[2] * y[2])
\* a / b for b # 0; the handlers' divisions by zero are DivFails below
RDiv(a, b) == RMul(a, Norm(b[2], b[1]))
RLeq(a, b) == a[1] * b[2] <= b[1] * a[2]
RLess(a, b) == a[1] * b[2] < b[1] * a[2]
RIsZero(a) == a[1] = 0

\* Python raises ZeroDivisionError on every float division by 0.0
DivFails(b) == RIsZero(b)

RECURSIVE IntPow(_, _)
IntPow(b, k) == IF k = 0 THEN 1 ELSE b * IntPow(b, k - 1)

\* a ** e for the integer exponents the model's inputs produce
RPow(a, e) ==
    CASE e[2] = 1 /\ e[1] >= 0 -> Norm(IntPow(a[1], e[1]), IntPow(a[2], e[1]))
      [] e[2] = 1 /\ e[1] < 0 -> Norm(IntPow(a[2], -e[1]), IntPow(a[1], -e[1]))

(***************************************************************************)
(* JSON values of a request body, and dict.get / float() on them.          *)
(***************************************************************************)
Absent == [t |-> "absent", n |-> 0, s |-> ""]
Null == [t |-> "null", n |-> 0, s |-> ""]
Num(n) == [t |-> "num", n |-> n, s |-> ""]
Str(s) == [t |-> "str", n |-> 0, s |-> s]

\* data.get(key, default)
Get(raw, default) == IF raw.t = "absent" THEN default ELSE raw

\* the strings float() parses, with their values
NumericStrings == {"100", "0"}
StrValue(s) == IF s = "100" THEN 100 ELSE 0

\* (variant: a conversion that never raises, reading what it cannot parse as 0)
FloatOkLenient(raw) == TRUE

\* float(x) succeeds on numbers and numeric strings, raises ValueError on any
\* other string and TypeError on None
FloatOk(raw) ==
    \/ raw.t = "num"
    \/ raw.t = "str" /\ raw.s \in NumericStrings

Float(raw) ==
    IF raw.t = "num" THEN Rat(raw.n)
    ELSE IF raw.t = "str" /\ raw.s \in NumericStrings THEN Rat(StrValue(raw.s))
    ELSE Zero

(***************************************************************************)
(* Requests.  A slot holds [kind, data, pc, loc, resp]: the route, the     *)
(* JSON body, the handler's position, its local variables, its response.   *)
(***************************************************************************)
NoBody == [none |-> TRUE]
NoResp == [status |-> 0, body |-> NoBody]
Idle == [kind |-> "idle", data |-> NoBody, pc |-> "idle", loc |-> NoBody,
         resp |-> NoResp]

Terminal(r) == r.pc \in {"idle", "done", "failed"}

\* jsonify(body): the handler returns, status 200
Return(r, body) == [r EXCEPT !.pc = "done", !.resp = [status |-> 200, body |-> body]]

\* an uncaught exception: Flask answers through the 500 error handler
internal_error == [status |-> 500, body |-> [page |-> "500.html"]]
Fail(r) == [r EXCEPT !.pc = "failed", !.resp = internal_error]

(***************************************************************************)
(* /api/debt-brake                                                         *)
(***************************************************************************)
DebtBrakeRate == <<35, 10000>>
DebtBrakePercentage == <<35, 100>>

\* (variant: the percentage 0.35 applied as 0.035)
DebtLimitTenfold(revenue) == RMul(revenue, <<35, 1000>>)

\* revenue * 0.0035
DebtLimit(revenue) == RMul(revenue, Norm(DebtBrakeRate[1], DebtBrakeRate[2]))

DebtBrakeLoc == [revenue |-> Zero, debt_limit |-> Zero]

calculate_debt_brake(r) ==
    CASE r.pc = "start" ->
           LET raw == Get(r.data.revenue, Num(0))
           IN  IF FloatOk(raw)
               THEN [r EXCEPT !.pc = "compute", !.loc.revenue = Float(raw)]
               ELSE Fail(r)
      [] r.pc = "compute" ->
           LET debt_limit == DebtLimit(r.loc.revenue)
           IN  Return([r EXCEPT !.loc.debt_limit = debt_limit],
                      [debt_limit |-> debt_limit,
                       revenue |-> r.loc.revenue,
                       percentage |-> Norm(DebtBrakePercentage[1], DebtBrakePercentage[2])])

(***************************************************************************)
(* /api/cost-analysis                                                      *)
(***************************************************************************)
CostLoc == [principal |-> Zero, interest_rate |-> Zero, term_years |-> Zero,
            tax_rate |-> Zero, monthly_rate |-> Zero, num_payments |-> Zero,
            monthly_payment |-> Zero, total_payment |-> Zero,
            total_interest |-> Zero, after_tax_interest |-> Zero,
            after_tax_cost |-> Zero]

\* (1 + monthly_rate) ** num_payments
Growth(l) == RPow(RAdd(One, l.monthly_rate), l.num_payments)

\* the division of line 118 or of line 120 is by zero
PaymentFails(l) ==
    IF RLess(Zero, l.monthly_rate)
    THEN DivFails(RSub(Growth(l), One))
    ELSE DivFails(l.num_payments)

MonthlyPayment(l) ==
    IF RLess(Zero, l.monthly_rate)
    THEN RDiv(RMul(l.principal, RMul(l.monthly_rate, Growth(l))),
              RSub(Growth(l), One))
    ELSE RDiv(l.principal, l.num_payments)

\* the division in the effective_rate entry of the result (line 135)
EffectiveRateFails(l) == DivFails(l.principal)

EffectiveRate(l) == RMul(RDiv(l.after_tax_interest, l.principal), Rat(100))

CostFields == <<"principal", "interest_rate", "term_years", "tax_rate">>

calculate_cost_analysis(r) ==
    CASE r.pc = "start" ->
           IF \A i \in 1..Len(CostFields) : FloatOk(Get(r.data[CostFields[i]], Num(0)))
           THEN LET interest_rate == Float(Get(r.data.interest_rate, Num(0)))
                    term_years == Float(Get(r.data.term_years, Num(0)))
                IN  [r EXCEPT !.pc = "payment",
                              !.loc.principal = Float(Get(r.data.principal, Num(0))),
                              !.loc.interest_rate = interest_rate,
                              !.loc.term_years = term_years,
                              !.loc.tax_rate = Float(Get(r.data.tax_rate, Num(0))),
                              !.loc.monthly_rate =
                                  RDiv(RDiv(interest_rate, Rat(12)), Rat(100)),
                              !.loc.num_payments = RMul(term_years, Rat(12))]
           ELSE Fail(r)
      [] r.pc = "payment" ->
           IF PaymentFails(r.loc)
           THEN Fail(r)
           ELSE [r EXCEPT !.pc = "totals", !.loc.monthly_payment = MonthlyPayment(r.loc)]
      [] r.pc = "totals" ->
           LET total_payment == RMul(r.loc.monthly_payment, r.loc.num_payments)
               total_interest == RSub(total_payment, r.loc.principal)
               after_tax_interest ==
                   RMul(total_interest, RSub(One, RDiv(r.loc.tax_rate, Rat(100))))
           IN  [r EXCEPT !.pc = "return",
                         !.loc.total_payment = total_payment,
                         !.loc.total_interest = total_interest,
                         !.loc.after_tax_interest = after_tax_interest,
                         !.loc.after_tax_cost = RAdd(r.loc.principal, after_tax_interest)]
      [] r.pc = "return" ->
           IF EffectiveRateFails(r.loc)
           THEN Fail(r)
           ELSE Return(r, [monthly_payment |-> r.loc.monthly_payment,
                           total_payment |-> r.loc.total_payment,
                           total_interest |-> r.loc.total_interest,
                           after_tax_interest |-> r.loc.after_tax_interest,
                           after_tax_cost |-> r.loc.after_tax_cost,
                           effective_rate |-> EffectiveRate(r.loc)])

(***************************************************************************)
(* /api/debt-snowball                                                      *)
(***************************************************************************)
\* the sort key of line 144: float(x.get('interest_rate', 0))
SortKeyOk(debt) == FloatOk(Get(debt.interest_rate, Num(0)))
SortKey(debt) == Float(Get(debt.interest_rate, Num(0)))

\* (variant: insert before equal keys, which reverses ties)
RECURSIVE InsertDescendingUnstable(_, _)
InsertDescendingUnstable(sorted, x) ==
    IF sorted = <<>> THEN <<x>>
    ELSE IF RLess(SortKey(x), SortKey(Head(sorted)))
         THEN <<Head(sorted)>> \o InsertDescendingUnstable(Tail(sorted), x)
         ELSE <<x>> \o sorted

\* sorted(debts, key, reverse=True): stable, descending.  Insert x after
\* every element whose key is >= x's key, so equal keys keep input order.
RECURSIVE InsertDescending(_, _)
InsertDescending(sorted, x) ==
    IF sorted = <<>> THEN <<x>>
    ELSE IF RLeq(SortKey(x), SortKey(Head(sorted)))
         THEN <<Head(sorted)>> \o InsertDescending(Tail(sorted), x)
         ELSE <<x>> \o sorted

RECURSIVE SortedFrom(_, _)
SortedFrom(acc, debts) ==
    IF debts = <<>> THEN acc
    ELSE SortedFrom(InsertDescending(acc, Head(debts)), Tail(debts))

SortDebts(debts) == SortedFrom(<<>>, debts)

DebtFields == <<"principal", "interest_rate", "minimum_payment">>

\* one of the float() conversions of lines 150-152 raises
DebtConversionFails(debt) ==
    \E i \in 1..Len(DebtFields) : ~FloatOk(Get(debt[DebtFields[i]], Num(0)))

\* the division by minimum_payment of line 157 or of line 159 is by zero
PayoffFails(debt) == DivFails(Float(Get(debt.minimum_payment, Num(0))))

PayoffMonths(principal, interest_rate, minimum_payment) ==
    LET monthly_rate == RDiv(RDiv(interest_rate, Rat(12)), Rat(100))
    IN  IF RLess(Zero, monthly_rate)
        THEN RMul(RMul(Rat(-1), RDiv(One, monthly_rate)),
                  RSub(One, RPow(RAdd(One, monthly_rate),
                                 RDiv(RNeg(principal), minimum_payment))))
        ELSE RDiv(principal, minimum_payment)

\* the dictionary appended to results in lines 161-168; i is enumerate's index
SnowballEntry(i, debt) ==
    LET principal == Float(Get(debt.principal, Num(0)))
        interest_rate == Float(Get(debt.interest_rate, Num(0)))
        minimum_payment == Float(Get(debt.minimum_payment, Num(0)))
    IN  [debt_id |-> i + 1,
         principal |-> principal,
         interest_rate |-> interest_rate,
         minimum_payment |-> minimum_payment,
         payoff_months |-> PayoffMonths(principal, interest_rate, minimum_payment),
         priority |-> i + 1]

SnowballLoc == [sorted_debts |-> <<>>, i |-> 0, results |-> <<>>,
                total_interest_saved |-> 0]

\* (variant: a debt that raises is skipped and the loop goes on)
SnowballIterationSkipping(r) ==
    LET debt == r.loc.sorted_debts[r.loc.i + 1]
        last == r.loc.i + 1 = Len(r.loc.sorted_debts)
        bad == DebtConversionFails(debt) \/ PayoffFails(debt)
    IN  [r EXCEPT !.pc = IF last THEN "return" ELSE "loop",
                  !.loc.i = @ + 1,
                  !.loc.results = IF bad THEN @
                                  ELSE Append(@, SnowballEntry(r.loc.i, debt))]

\* one iteration of the loop of lines 149-168 on sorted_debts[i]
SnowballIteration(r) ==
    LET debt == r.loc.sorted_debts[r.loc.i + 1]
        last == r.loc.i + 1 = Len(r.loc.sorted_debts)
    IN  IF DebtConversionFails(debt) \/ PayoffFails(debt)
        THEN Fail(r)
        ELSE [r EXCEPT !.pc = IF last THEN "return" ELSE "loop",
                       !.loc.i = @ + 1,
                       !.loc.results = Append(@, SnowballEntry(r.loc.i, debt))]

calculate_debt_snowball(r) ==
    CASE r.pc = "start" ->
           LET debts == r.data.debts
           IN  IF \E k \in 1..Len(debts) : ~SortKeyOk(debts[k])
               THEN Fail(r)
               ELSE [r EXCEPT !.pc = IF debts = <<>> THEN "return" ELSE "loop",
                              !.loc.sorted_debts = SortDebts(debts)]
      [] r.pc = "loop" -> SnowballIteration(r)
      [] r.pc = "return" ->
           Return(r, [prioritized_debts |-> r.loc.results,
                      total_interest_saved |-> r.loc.total_interest_saved])

(***************************************************************************)
(* /api/funding-guidance                                                   *)
(***************************************************************************)
SmallMaxAmount == 500000
MediumMaxAmount == 2000000

funding_programs ==
    << [name |-> "KfW SME Loan",
        description |-> "Low-interest loans for small and medium enterprises",
        max_amount |-> 1000000,
        interest_rate |-> <<5, 2>>,
        eligibility |-> "SMEs with less than 250 employees"],
       [name |-> "EU Horizon Europe",
        description |-> "Innovation and research funding",
        max_amount |-> 5000000,
        interest_rate |-> <<0, 1>>,
        eligibility |-> "Innovation-focused companies"],
       [name |-> "Digital Innovation Fund",
        description |-> "Funding for digital transformation",
        max_amount |-> 500000,
        interest_rate |-> <<3, 2>>,
        eligibility |-> "Companies implementing digital solutions"] >>

\* (variants: strict comparisons; the two limits exchanged)
RecommendedStrict(company_size, program) ==
    IF company_size = Str("small") /\ program.max_amount < SmallMaxAmount THEN TRUE
    ELSE IF company_size = Str("medium") /\ program.max_amount < MediumMaxAmount THEN TRUE
    ELSE IF company_size = Str("large") THEN TRUE
    ELSE FALSE
RecommendedSwapped(company_size, program) ==
    IF company_size = Str("small") /\ program.max_amount <= MediumMaxAmount THEN TRUE
    ELSE IF company_size = Str("medium") /\ program.max_amount <= SmallMaxAmount THEN TRUE
    ELSE IF company_size = Str("large") THEN TRUE
    ELSE FALSE

\* the if / elif chain of lines 210-215: the program is appended
Recommended(company_size, program) ==
    IF company_size = Str("small") /\ program.max_amount <= SmallMaxAmount THEN TRUE
    ELSE IF company_size = Str("medium") /\ program.max_amount <= MediumMaxAmount THEN TRUE
    ELSE IF company_size = Str("large") THEN TRUE
    ELSE FALSE

FundingLoc == [company_size |-> Str(""), industry |-> Str(""), purpose |-> Str(""),
               i |-> 0, recommended_programs |-> <<>>]

get_funding_guidance(r) ==
    CASE r.pc = "start" ->
           [r EXCEPT !.pc = "loop",
                     !.loc.company_size = Get(r.data.company_size, Str("")),
                     !.loc.industry = Get(r.data.industry, Str("")),
                     !.loc.purpose = Get(r.data.purpose, Str(""))]
      [] r.pc = "loop" ->
           LET program == funding_programs[r.loc.i + 1]
           IN  [r EXCEPT !.pc = IF r.loc.i + 1 = Len(funding_programs)
                                THEN "return" ELSE "loop",
                         !.loc.i = @ + 1,
                         !.loc.recommended_programs =
                             IF Recommended(r.loc.company_size, program)
                             THEN Append(@, program) ELSE @]
      [] r.pc = "return" ->
           Return(r, [recommended_programs |-> r.loc.recommended_programs,
                      total_programs |-> Len(r.loc.recommended_programs)])

(***************************************************************************)
(* /api/covenant-tracking                                                  *)
(***************************************************************************)
DebtToEbitdaThreshold == <<3, 1>>
CurrentRatioThreshold == <<6, 5>>
DebtToEquityThreshold == <<2, 1>>

\* (variant: the guard written as denominator != 0)
RatioGuardNonZero(numerator, denominator) ==
    IF ~RIsZero(denominator) THEN RDiv(numerator, denominator) ELSE Zero

\* numerator / denominator if denominator > 0 else 0   (lines 234-236)
Ratio(numerator, denominator) ==
    IF RLess(Zero, denominator) THEN RDiv(numerator, denominator) ELSE Zero

\* (variant: value < threshold)
AtMostStrict(value, threshold) == RLess(value, threshold)

\* value <= threshold, value >= threshold   (lines 243, 249, 255)
AtMost(value, threshold) == RLeq(value, threshold)
AtLeast(value, threshold) == RLeq(threshold, value)

Covenants(debt_to_ebitda, current_ratio, debt_to_equity) ==
    [debt_to_ebitda |->
         [value |-> debt_to_ebitda, threshold |-> DebtToEbitdaThreshold,
          compliant |-> AtMost(debt_to_ebitda, DebtToEbitdaThreshold),
          description |-> "Debt-to-EBITDA Ratio"],
     current_ratio |->
         [value |-> current_ratio, threshold |-> CurrentRatioThreshold,
          compliant |-> AtLeast(current_ratio, CurrentRatioThreshold),
          description |-> "Current Ratio"],
     debt_to_equity |->
         [value |-> debt_to_equity, threshold |-> DebtToEquityThreshold,
          compliant |-> AtMost(debt_to_equity, DebtToEquityThreshold),
          description |-> "Debt-to-Equity Ratio"]]

\* all(c['compliant'] for c in covenants.values())
AllCompliant(covenants) == \A k \in DOMAIN covenants : covenants[k].compliant

CovenantFields == <<"total_debt", "ebitda", "current_assets",
                    "current_liabilities", "net_worth">>

CovenantLoc == [total_debt |-> Zero, ebitda |-> Zero, current_assets |-> Zero,
                current_liabilities |-> Zero, net_worth |-> Zero,
                debt_to_ebitda |-> Zero, current_ratio |-> Zero,
                debt_to_equity |-> Zero]

calculate_covenants(r) ==
    CASE r.pc = "start" ->
           IF \A i \in 1..Len(CovenantFields) :
                  FloatOk(Get(r.data[CovenantFields[i]], Num(0)))
           THEN [r EXCEPT !.pc = "ratios",
                          !.loc.total_debt = Float(Get(r.data.total_debt, Num(0))),
                          !.loc.ebitda = Float(Get(r.data.ebitda, Num(0))),
                          !.loc.current_assets = Float(Get(r.data.current_assets, Num(0))),
                          !.loc.current_liabilities =
                              Float(Get(r.data.current_liabilities, Num(0))),
                          !.loc.net_worth = Float(Get(r.data.net_worth, Num(0)))]
           ELSE Fail(r)
      [] r.pc = "ratios" ->
           LET debt_to_ebitda == Ratio(r.loc.total_debt, r.loc.ebitda)
               current_ratio == Ratio(r.loc.current_assets, r.loc.current_liabilities)
               debt_to_equity == Ratio(r.loc.total_debt, r.loc.net_worth)
               covenants == Covenants(debt_to_ebitda, current_ratio, debt_to_equity)
           IN  Return([r EXCEPT !.loc.debt_to_ebitda = debt_to_ebitda,
                                !.loc.current_ratio = current_ratio,
                                !.loc.debt_to_equity = debt_to_equity],
                      [covenants |-> covenants,
                       overall_compliant |-> AllCompliant(covenants)])

(***************************************************************************)
(* Request handling: a request arrives in a free slot and its handler      *)
(* runs one step at a time, interleaved with the other slots' handlers.    *)
(***************************************************************************)
Calculators == {"debt_brake", "cost_analysis", "debt_snowball",
                "funding_guidance", "covenant_tracking"}

InitLoc(kind) ==
    CASE kind = "debt_brake" -> DebtBrakeLoc
      [] kind = "cost_analysis" -> CostLoc
      [] kind = "debt_snowball" -> SnowballLoc
      [] kind = "funding_guidance" -> FundingLoc
      [] kind = "covenant_tracking" -> CovenantLoc

\* the state of a handler entered with request.get_json() = data
Fresh(kind, data) ==
    [kind |-> kind, data |-> data, pc |-> "start", loc |-> InitLoc(kind),
     resp |-> NoResp]

HandlerStep(r) ==
    CASE r.kind = "debt_brake" -> calculate_debt_brake(r)
      [] r.kind = "cost_analysis" -> calculate_cost_analysis(r)
      [] r.kind = "debt_snowball" -> calculate_debt_snowball(r)
      [] r.kind = "funding_guidance" -> get_funding_guidance(r)
      [] r.kind = "covenant_tracking" -> calculate_covenants(r)

\* the handler run to its end with no other request in the system
RECURSIVE RunAlone(_)
RunAlone(r) == IF Terminal(r) THEN r ELSE RunAlone(HandlerStep(r))

Receive(s, kind, data) ==
    /\ Terminal(reqs[s])
    /\ reqs' = [reqs EXCEPT ![s] = Fresh(kind, data)]
    /\ UNCHANGED session

\* (variant: `results` kept at module level, one list for all requests)
AdvanceSharedResults(s) ==
    /\ ~Terminal(reqs[s])
    /\ LET new == HandlerStep(reqs[s])
           shares(t) == /\ t # s
                        /\ reqs[s].kind = "debt_snowball"
                        /\ reqs[t].kind = "debt_snowball"
                        /\ ~Terminal(reqs[t])
                        /\ new.pc # "failed"
       IN  reqs' = [t \in Slots |->
                       IF t = s THEN new
                       ELSE IF shares(t)
                            THEN [reqs[t] EXCEPT !.loc.results = new.loc.results]
                            ELSE reqs[t]]
    /\ UNCHANGED session

\* one step of the handler in slot s, on its own request only
Advance(s) ==
    /\ ~Terminal(reqs[s])
    /\ reqs' = [reqs EXCEPT ![s] = HandlerStep(reqs[s])]
    /\ UNCHANGED session

(***************************************************************************)
(* The language preference and the presentation layer.                     *)
(***************************************************************************)
SupportedLanguages == {"en", "de"}
RequestedLanguages == {"en", "de", "fr"}

\* session.get('language', 'en')
Language(sid) == IF session[sid] = "unset" THEN "en" ELSE session[sid]

\* (variant: the preference stored without the membership test)
set_language_unchecked(sid, lang) ==
    /\ session' = [session EXCEPT ![sid] = lang]
    /\ UNCHANGED reqs

\* /set_language/<lang>
set_language(sid, lang) ==
    /\ IF lang \in SupportedLanguages
       THEN session' = [session EXCEPT ![sid] = lang]
       ELSE UNCHANGED session
    /\ UNCHANGED reqs

\* the translations file as _ may find it: missing, or its lines, each
\* either "en_text|de_text" or a line with no '|'
TranslationFiles ==
    { [exists |-> FALSE, lines |-> <<>>],
      [exists |-> TRUE, lines |-> <<>>],
      [exists |-> TRUE,
       lines |-> << [bar |-> FALSE, en_text |-> "", de_text |-> ""],
                    [bar |-> TRUE, en_text |-> "Home", de_text |-> "Startseite"] >>] }

RECURSIVE Lookup(_, _)
Lookup(lines, text) ==
    IF lines = <<>> THEN text
    ELSE IF Head(lines).bar /\ Head(lines).en_text = text THEN Head(lines).de_text
    ELSE Lookup(Tail(lines), text)

\* _(text) in a request of a session whose preference reads lang
Translate(lang, text, file) ==
    IF lang = "de" /\ file.exists THEN Lookup(file.lines, text) ELSE text

PageTexts == {"Home", "About"}

\* what a template shows for its strings in a request of session sid
RenderedPage(sid, file) ==
    [text \in PageTexts |-> Translate(Language(sid), text, file)]

\* a page route: render_template, whose template calls _ on its strings;
\* the page goes to the client and nothing of the application changes
render_page(sid) ==
    /\ \E file \in TranslationFiles : DOMAIN RenderedPage(sid, file) = PageTexts
    /\ UNCHANGED vars

(***************************************************************************)
(* Request bodies.                                                         *)
(***************************************************************************)
Amounts == {Num(n) : n \in 0..MaxAmount}

BrakeBodies ==
    { [revenue |-> x] :
        x \in Amounts \cup {Absent, Null, Str("abc"), Str("100"), Num(-1), Num(100000)} }

CostBodies ==
    [principal : {Absent, Num(0), Num(1000), Null},
     interest_rate : {Absent, Num(0), Num(1200), Str("abc")},
     term_years : {Absent, Num(0), Num(1)},
     tax_rate : {Absent, Num(30), Num(100)}]

DebtValues ==
    [principal : {Num(2), Num(4)},
     interest_rate : {Absent, Num(0), Num(1200), Str("abc")},
     minimum_payment : {Num(0), Num(1), Null}]

RECURSIVE SeqsUpTo(_, _)
SeqsUpTo(S, n) ==
    IF n = 0 THEN {<<>>}
    ELSE LET shorter == SeqsUpTo(S, n - 1)
         IN  shorter \cup {Append(q, x) : q \in shorter, x \in S}

SnowballBodies == { [debts |-> q] : q \in SeqsUpTo(DebtValues, MaxDebts) }

FundingBodies ==
    [company_size : {Absent, Str("small"), Str("medium"), Str("large"), Str(""),
                     Str("Small"), Str("micro"), Num(1)},
     industry : {Absent, Str("software")},
     purpose : {Absent, Str("expansion")}]

CovenantBodies ==
    [total_debt : Amounts \cup {Str("abc")},
     ebitda : {Absent, Num(-1), Num(0), Num(1), Num(2)},
     current_assets : Amounts,
     current_liabilities : {Num(-1), Num(0), Num(5)},
     net_worth : {Num(-2), Num(0), Num(2), Num(3)}]

Requests(kind, bodies) == { [kind |-> kind, data |-> d] : d \in bodies }

AllRequests ==
    Requests("debt_brake", BrakeBodies)
    \cup Requests("cost_analysis", CostBodies)
    \cup Requests("debt_snowball", SnowballBodies)
    \cup Requests("funding_guidance", FundingBodies)
    \cup Requests("covenant_tracking", CovenantBodies)

\* the requests of the concurrent specification: one body per calculator
ConcurrentRequests ==
    { [kind |-> "debt_brake", data |-> [revenue |-> Num(100)]],
      [kind |-> "cost_analysis",
       data |-> [principal |-> Num(1000), interest_rate |-> Num(1200),
                 term_years |-> Num(1), tax_rate |-> Num(30)]],
      [kind |-> "debt_snowball",
       data |-> [debts |-> << [principal |-> Num(2), interest_rate |-> Num(0),
                               minimum_payment |-> Num(1)],
                              [principal |-> Num(4), interest_rate |-> Num(1200),
                               minimum_payment |-> Num(1)] >>]],
      [kind |-> "funding_guidance",
       data |-> [company_size |-> Str("medium"), industry |-> Absent,
                 purpose |-> Absent]],
      [kind |-> "covenant_tracking",
       data |-> [total_debt |-> Num(3), ebitda |-> Num(1), current_assets |-> Num(6),
                 current_liabilities |-> Num(5), net_worth |-> Num(2)]] }

(***************************************************************************)
(* Spec: the application serving concurrent requests.                      *)
(***************************************************************************)
Init ==
    /\ session = [sid \in Sessions |-> "unset"]
    /\ reqs = [s \in Slots |-> Idle]

Next ==
    \/ \E s \in Slots : \E q \in ConcurrentRequests : Receive(s, q.kind, q.data)
    \/ \E s \in Slots : Advance(s)
    \/ \E sid \in Sessions : \E lang \in RequestedLanguages : set_language(sid, lang)
    \/ \E sid \in Sessions : render_page(sid)

Spec == Init /\ [][Next]_vars

(***************************************************************************)
(* SpecInputs: one request, its body drawn from AllRequests, run to its    *)
(* end in slot 1.                                                          *)
(***************************************************************************)
InitInputs ==
    /\ session = [sid \in Sessions |-> "unset"]
    /\ \E q \in AllRequests :
          reqs = [s \in Slots |-> IF s = 1 THEN Fresh(q.kind, q.data) ELSE Idle]

NextInputs == Advance(1)

SpecInputs == InitInputs /\ [][NextInputs]_vars

(***************************************************************************)
(* Properties.                                                             *)
(***************************************************************************)
IsNumber(raw) == raw.t \in {"num", "absent"}
Finished(s, kind) == reqs[s].kind = kind /\ Terminal(reqs[s])
Answered(s, kind) == reqs[s].kind = kind /\ reqs[s].pc = "done"
Body(s) == reqs[s].resp.body

\* C1 as stated: a funding-guidance request with company_size "small" returns
\* only catalog programs with max_amount <= 500000, exactly 2 of the 3.
C1_SmallReturnsTwo ==
    \A s \in Slots :
        Answered(s, "funding_guidance") /\ reqs[s].data.company_size = Str("small")
        => /\ \A k \in 1..Len(Body(s).recommended_programs) :
                  /\ Body(s).recommended_programs[k].max_amount <= 500000
                  /\ \E j \in 1..Len(funding_programs) :
                         funding_programs[j] = Body(s).recommended_programs[k]
           /\ Len(Body(s).recommended_programs) = 2

\* C1 amended: a funding-guidance request with company_size "small" returns
\* only catalog programs with max_amount <= 500000, and these are exactly 1 of
\* the 3 catalog programs, the Digital Innovation Fund.
C1_SmallReturnsOne ==
    \A s \in Slots :
        Answered(s, "funding_guidance") /\ reqs[s].data.company_size = Str("small")
        => /\ \A k \in 1..Len(Body(s).recommended_programs) :
                  /\ Body(s).recommended_programs[k].max_amount <= 500000
                  /\ \E j \in 1..Len(funding_programs) :
                         funding_programs[j] = Body(s).recommended_programs[k]
           /\ Len(funding_programs) = 3
           /\ Len(Body(s).recommended_programs) = 1
           /\ Body(s).recommended_programs[1].name = "Digital Innovation Fund"

C1_Witness ==
    /\ Answered(1, "funding_guidance")
    /\ reqs[1].data.company_size = Str("small")
    /\ Body(1).total_programs = 1

\* the filter rule of the specification
C2_Rule(company_size, program) ==
    \/ company_size = Str("small") /\ program.max_amount <= 500000
    \/ company_size = Str("medium") /\ program.max_amount <= 2000000
    \/ company_size = Str("large")

\* C2: for every company_size (absent read as the empty string) the answer
\* holds exactly the catalog programs the filter rule selects, in catalog
\* order, and total_programs is the length of the returned list; large gives
\* all 3, an unrecognised value none.
C2_FilterRule ==
    \A s \in Slots :
        Answered(s, "funding_guidance")
        => LET size == IF reqs[s].data.company_size = Absent THEN Str("")
                       ELSE reqs[s].data.company_size
               Selected(program) == C2_Rule(size, program)
           IN  /\ Body(s).recommended_programs = SelectSeq(funding_programs, Selected)
               /\ Body(s).total_programs = Len(Body(s).recommended_programs)
               /\ size = Str("large") => Body(s).total_programs = 3
               /\ size \notin {Str("small"), Str("medium"), Str("large")}
                      => Body(s).recommended_programs = <<>>

C2_Witness ==
    /\ Answered(1, "funding_guidance")
    /\ reqs[1].data.company_size = Str("medium")
    /\ Body(1).total_programs = 2
    /\ Body(1).recommended_programs[1].name = "KfW SME Loan"
    /\ Body(1).recommended_programs[2].name = "Digital Innovation Fund"

\* C3: debt_to_ebitda.compliant iff value <= 3.0, current_ratio.compliant iff
\* value >= 1.2, debt_to_equity.compliant iff value <= 2.0, boundaries
\* inclusive, and overall_compliant iff all three flags are true.
C3_Thresholds ==
    \A s \in Slots :
        Answered(s, "covenant_tracking")
        => LET c == Body(s).covenants
           IN  /\ c.debt_to_ebitda.compliant
                      <=> c.debt_to_ebitda.value[1] <= 3 * c.debt_to_ebitda.value[2]
               /\ c.current_ratio.compliant
                      <=> 5 * c.current_ratio.value[1] >= 6 * c.current_ratio.value[2]
               /\ c.debt_to_equity.compliant
                      <=> c.debt_to_equity.value[1] <= 2 * c.debt_to_equity.value[2]
               /\ Body(s).overall_compliant
                      <=> /\ c.debt_to_ebitda.compliant
                          /\ c.current_ratio.compliant
                          /\ c.debt_to_equity.compliant

\* all three ratios exactly on their thresholds: 6/2 = 3.0, 6/5 = 1.2, 6/3 = 2.0
C3_Witness ==
    /\ Answered(1, "covenant_tracking")
    /\ Body(1).covenants.debt_to_ebitda.value = <<3, 1>>
    /\ Body(1).covenants.current_ratio.value = <<6, 5>>
    /\ Body(1).covenants.debt_to_equity.value = <<2, 1>>
    /\ Body(1).overall_compliant

\* C4: with numeric (or absent) fields calculate_covenants raises no error,
\* every ratio whose denominator is <= 0 has value 0, and with ebitda = 0 the
\* debt_to_ebitda value is 0 and its compliant flag is true.
C4_NonPositiveDenominator ==
    \A s \in Slots :
        LET d == reqs[s].data
        IN  Finished(s, "covenant_tracking")
            /\ (\A i \in 1..Len(CovenantFields) : IsNumber(d[CovenantFields[i]]))
            => /\ reqs[s].pc = "done"
               /\ reqs[s].resp.status = 200
               /\ d.ebitda.n <= 0 => Body(s).covenants.debt_to_ebitda.value = <<0, 1>>
               /\ d.current_liabilities.n <= 0
                      => Body(s).covenants.current_ratio.value = <<0, 1>>
               /\ d.net_worth.n <= 0 => Body(s).covenants.debt_to_equity.value = <<0, 1>>
               /\ d.ebitda.n = 0 => Body(s).covenants.debt_to_ebitda.compliant

C4_Witness ==
    /\ Answered(1, "covenant_tracking")
    /\ reqs[1].data.ebitda = Num(0)
    /\ reqs[1].data.total_debt = Num(7)
    /\ reqs[1].data.net_worth = Num(-2)
    /\ Body(1).covenants.debt_to_ebitda.value = <<0, 1>>
    /\ Body(1).covenants.debt_to_ebitda.compliant
    /\ Body(1).covenants.debt_to_equity.value = <<0, 1>>

Rearrangements(n) ==
    { f \in [1..n -> 1..n] : \A i, j \in 1..n : i # j => f[i] # f[j] }

C5_Applies(debts) ==
    \A k \in 1..Len(debts) :
        /\ IsNumber(debts[k].principal)
        /\ IsNumber(debts[k].interest_rate)
        /\ debts[k].minimum_payment.t = "num"
        /\ debts[k].minimum_payment.n > 0

\* C5: for every list of debts with minimum_payment > 0 the answer is a
\* permutation of the input in non-increasing interest_rate order, debts of
\* equal interest_rate keep their relative input order, and the k-th returned
\* debt has priority k.
C5_StableDescending ==
    \A s \in Slots :
        Finished(s, "debt_snowball") /\ C5_Applies(reqs[s].data.debts)
        => LET debts == reqs[s].data.debts
               out == Body(s).prioritized_debts
               n == Len(debts)
           IN  /\ reqs[s].pc = "done"
               /\ Len(out) = n
               /\ \E f \in Rearrangements(n) :
                      /\ \A k \in 1..n :
                             /\ out[k].principal = <<debts[f[k]].principal.n, 1>>
                             /\ out[k].interest_rate = <<debts[f[k]].interest_rate.n, 1>>
                             /\ out[k].minimum_payment
                                    = <<debts[f[k]].minimum_payment.n, 1>>
                      /\ \A k, l \in 1..n :
                             k < l /\ out[k].interest_rate = out[l].interest_rate
                             => f[k] < f[l]
               /\ \A k, l \in 1..n :
                      k < l => out[k].interest_rate[1] >= out[l].interest_rate[1]
               /\ \A k \in 1..n : out[k].priority = k

\* two debts of equal rate (an absent rate reads 0), told apart by principal
C5_Witness ==
    /\ Answered(1, "debt_snowball")
    /\ Len(reqs[1].data.debts) = 2
    /\ reqs[1].data.debts[1].interest_rate = Absent
    /\ reqs[1].data.debts[2].interest_rate = Num(0)
    /\ Body(1).prioritized_debts[1].principal = <<4, 1>>
    /\ Body(1).prioritized_debts[2].principal = <<2, 1>>
    /\ Body(1).prioritized_debts[2].priority = 2

\* C6: for all revenue >= 0 the answer has 10000 x debt_limit = 35 x revenue
\* and echoes the revenue; the percentage field is 0.35 for every input.
C6_DebtLimit ==
    \A s \in Slots :
        LET raw == reqs[s].data.revenue
        IN  /\ Answered(s, "debt_brake")
                => 100 * Body(s).percentage[1] = 35 * Body(s).percentage[2]
            /\ Finished(s, "debt_brake") /\ raw.t = "num" /\ raw.n >= 0
                => /\ reqs[s].pc = "done"
                   /\ 10000 * Body(s).debt_limit[1] = 35 * raw.n * Body(s).debt_limit[2]
                   /\ Body(s).debt_limit[2] > 0
                   /\ Body(s).revenue = <<raw.n, 1>>

C6_Witness ==
    /\ Answered(1, "debt_brake")
    /\ reqs[1].data.revenue = Num(100000)
    /\ Body(1).debt_limit = <<350, 1>>
    /\ Body(1).percentage = <<7, 20>>

\* C7 as stated: the debt brake calculator has no error paths; every request
\* returns a result and an absent or malformed revenue is treated as 0.
C7_NoErrorPaths ==
    \A s \in Slots :
        Finished(s, "debt_brake")
        => /\ reqs[s].pc = "done"
           /\ reqs[s].resp.status = 200
           /\ reqs[s].data.revenue.t # "num" /\ reqs[s].data.revenue # Str("100")
                  => Body(s).debt_limit = <<0, 1>>

\* C7 amended: an absent revenue is treated as 0 (debt_limit = 0) and a
\* numeric revenue is answered; a malformed revenue (a non-numeric string or
\* null) is not treated as 0: the conversion error fails the request, which
\* is answered by the 500 handler with no result.
C7_MalformedFails ==
    \A s \in Slots :
        LET raw == reqs[s].data.revenue
        IN  Finished(s, "debt_brake")
            => /\ raw = Absent
                   => /\ reqs[s].pc = "done"
                      /\ Body(s).debt_limit = <<0, 1>>
                      /\ Body(s).revenue = <<0, 1>>
               /\ raw.t = "num" => reqs[s].pc = "done" /\ reqs[s].resp.status = 200
               /\ raw \in {Str("abc"), Null}
                   => /\ reqs[s].pc = "failed"
                      /\ reqs[s].resp.status = 500
                      /\ DOMAIN Body(s) = {"page"}

C7_Witness ==
    /\ reqs[1].kind = "debt_brake"
    /\ reqs[1].data.revenue = Str("abc")
    /\ reqs[1].pc = "failed"
    /\ reqs[1].resp.status = 500

ResultFields(kind) ==
    CASE kind = "debt_brake" -> {"debt_limit", "revenue", "percentage"}
      [] kind = "cost_analysis" ->
             {"monthly_payment", "total_payment", "total_interest",
              "after_tax_interest", "after_tax_cost", "effective_rate"}
      [] kind = "debt_snowball" -> {"prioritized_debts", "total_interest_saved"}
      [] kind = "funding_guidance" -> {"recommended_programs", "total_programs"}
      [] kind = "covenant_tracking" -> {"covenants", "overall_compliant"}

IsZeroNumber(raw) == IsNumber(raw) /\ raw.n = 0

\* C9: a calculator request ends either answered with its complete result
\* record or failed as a whole with no result field; a debt-snowball request
\* with some minimum_payment = 0 fails with no prioritized_debts entry, and a
\* cost-analysis request with principal = 0 or term_years = 0 fails with none
\* of the fields computed before the fault.
C9_AllOrNothing ==
    \A s \in Slots :
        LET r == reqs[s]
        IN  r.kind \in Calculators
            => /\ ~Terminal(r) => r.resp = NoResp
               /\ Terminal(r) =>
                    \/ /\ r.pc = "done"
                       /\ r.resp.status = 200
                       /\ DOMAIN r.resp.body = ResultFields(r.kind)
                       /\ r.kind = "debt_snowball"
                              => Len(r.resp.body.prioritized_debts) = Len(r.data.debts)
                    \/ /\ r.pc = "failed"
                       /\ r.resp.status = 500
                       /\ DOMAIN r.resp.body \cap ResultFields(r.kind) = {}
               /\ /\ Terminal(r)
                  /\ r.kind = "debt_snowball"
                  /\ \E k \in 1..Len(r.data.debts) :
                         IsZeroNumber(r.data.debts[k].minimum_payment)
                  => r.pc = "failed"
               /\ /\ Terminal(r)
                  /\ r.kind = "cost_analysis"
                  /\ IsZeroNumber(r.data.principal) \/ IsZeroNumber(r.data.term_years)
                  => r.pc = "failed"

\* a snowball request that fails on its second debt, the first already in results
C9_Witness ==
    /\ reqs[1].kind = "debt_snowball"
    /\ reqs[1].pc = "failed"
    /\ Len(reqs[1].loc.results) = 1
    /\ reqs[1].loc.sorted_debts[2].minimum_payment = Num(0)
    /\ DOMAIN Body(1) = {"page"}

\* the request in slot s is where running it alone would have brought it:
\* run on from here with no other request, it ends as the request run alone
\* from its arrival ends
SameAsAlone(s) ==
    LET r == reqs[s]
        here == RunAlone(r)
        alone == RunAlone(Fresh(r.kind, r.data))
    IN  /\ here.pc = alone.pc
        /\ here.resp.status = alone.resp.status
        /\ here.resp.body = alone.resp.body

\* C8: under every interleaving of concurrent calculator requests and
\* set_language requests each request's outcome is the outcome of running it
\* alone on the same input, and a calculator step changes nothing but its own
\* request: not another request, not the session.
C8_Independent ==
    /\ [](\A s \in Slots : reqs[s].kind \in Calculators => SameAsAlone(s))
    /\ [][\A s \in Slots :
              Advance(s) => /\ session' = session
                            /\ \A t \in Slots \ {s} : reqs'[t] = reqs[t]]_vars

\* two snowball requests in their loops at once, after a language switch
C8_Witness ==
    /\ reqs[1].kind = "debt_snowball" /\ reqs[1].pc = "loop" /\ reqs[1].loc.i = 1
    /\ reqs[2].kind = "debt_snowball" /\ reqs[2].pc = "loop" /\ reqs[2].loc.i = 1
    /\ session[1] = "de"

\* C10: a session's preference is unset (read as 'en') or 'en' or 'de'; a
\* set_language call with lang in {en, de} sets it to exactly lang and a call
\* with any other lang changes nothing; the preference changes in no other
\* way, so no calculator and no page route modifies it.
C10_LanguagePreference ==
    /\ [](\A sid \in Sessions :
              /\ session[sid] \in {"unset", "en", "de"}
              /\ Language(sid) \in {"en", "de"}
              /\ session[sid] = "unset" => Language(sid) = "en")
    /\ [][\A sid \in Sessions : \A lang \in RequestedLanguages :
              set_language(sid, lang)
              => IF lang \in {"en", "de"}
                 THEN /\ session'[sid] = lang
                      /\ \A other \in Sessions \ {sid} : session'[other] = session[other]
                 ELSE session' = session]_vars
    /\ [][/\ reqs' # reqs => session' = session
          /\ (\E s \in Slots : Advance(s)) => session' = session
          /\ (\E sid \in Sessions : render_page(sid)) => session' = session
          /\ \A sid \in Sessions :
                 session'[sid] # session[sid] => session'[sid] \in {"en", "de"}]_vars

\* a session switched to German while a calculator request was answered
C10_Witness ==
    /\ session[1] = "de"
    /\ \E s \in Slots : reqs[s].kind \in Calculators /\ reqs[s].pc = "done"

=============================================================================
